---- MODULE Spec2Model ----
(***************************************************************************)
(* Model of mcp-subagent-isolation/solution-examples.py: the keyword       *)
(* routers (route_task of solution 1, AgentOrchestrator.analyze_task of    *)
(* solution 4), the per-profile session configuration, the session        *)
(* lifecycle of one invocation (async with ClaudeSDKClient ... query ...   *)
(* receive_response) and the sequential task loops.                        *)
(*                                                                         *)
(* A Python str is modelled as a sequence of one-character strings.  A     *)
(* task description is kept in the state as a sequence of string fragments *)
(* whose text is the concatenation of the fragments' characters.           *)
(***************************************************************************)
EXTENDS Integers, Sequences, FiniteSets, TLC

\* ------------------------------------------------------------------ bounds
\* Longest task list handed to a task loop.
MaxTasks == 2
\* Most messages the runtime emits in one response stream.
MaxMsgs == 2
\* Most fragments concatenated into a generated task description.
MaxWords == 2

\* ----------------------------------------------------------------- strings
\* The characters of each string literal the model uses.
Chars(w) ==
  CASE w = "browser" ->
         <<"b","r","o","w","s","e","r">>
    [] w = "web scraping" ->
         <<"w","e","b"," ","s","c","r","a","p","i","n","g">>
    [] w = "web" ->
         <<"w","e","b">>
    [] w = "file" ->
         <<"f","i","l","e">>
    [] w = "directory" ->
         <<"d","i","r","e","c","t","o","r","y">>
    [] w = "database" ->
         <<"d","a","t","a","b","a","s","e">>
    [] w = "sql" ->
         <<"s","q","l">>
    [] w = "Scrape product data from example.com" ->
         <<"S","c","r","a","p","e"," ","p","r","o","d","u","c","t"," ","d","a","t","a"," ","f","r","o","m"," ","e","x","a","m","p","l","e",".","c","o","m">>
    [] w = "List all Python files in src/" ->
         <<"L","i","s","t"," ","a","l","l"," ","P","y","t","h","o","n"," ","f","i","l","e","s"," ","i","n"," ","s","r","c","/">>
    [] w = "Query users table for active accounts" ->
         <<"Q","u","e","r","y"," ","u","s","e","r","s"," ","t","a","b","l","e"," ","f","o","r"," ","a","c","t","i","v","e"," ","a","c","c","o","u","n","t","s">>
    [] w = "Explain what MCP servers are" ->
         <<"E","x","p","l","a","i","n"," ","w","h","a","t"," ","M","C","P"," ","s","e","r","v","e","r","s"," ","a","r","e">>
    [] w = "Browser" ->
         <<"B","r","o","w","s","e","r">>
    [] w = "WEB scraping" ->
         <<"W","E","B"," ","s","c","r","a","p","i","n","g">>
    [] w = " Scraping" ->
         <<" ","S","c","r","a","p","i","n","g">>
    [] w = "File" ->
         <<"F","i","l","e">>
    [] w = "DIRECTORY" ->
         <<"D","I","R","E","C","T","O","R","Y">>
    [] w = "nondatabase" ->
         <<"n","o","n","d","a","t","a","b","a","s","e">>
    [] w = "Sql" ->
         <<"S","q","l">>
    [] w = "plain" ->
         <<"p","l","a","i","n">>
    [] w = " " ->
         <<" ">>
    [] w = "ABCDEFGHIJKLMNOPQRSTUVWXYZ" ->
         <<"A","B","C","D","E","F","G","H","I","J","K","L","M","N","O","P","Q","R","S","T","U","V","W","X","Y","Z">>
    [] w = "abcdefghijklmnopqrstuvwxyz" ->
         <<"a","b","c","d","e","f","g","h","i","j","k","l","m","n","o","p","q","r","s","t","u","v","w","x","y","z">>

\* The task list of solution 1's demo.
Solution1Tasks ==
  { <<"Scrape product data from example.com">>,
    <<"List all Python files in src/">>,
    <<"Query users table for active accounts">>,
    <<"Explain what MCP servers are">> }

\* Fragments from which arbitrary task descriptions are built: every keyword
\* in some letter case, a keyword inside a longer word, the two halves of
\* "web scraping", and text without a keyword.
Words ==
  { "Browser", "web", " Scraping", "WEB scraping", "File", "DIRECTORY",
    "nondatabase", "Sql", "plain", " " }

TaskStrings == UNION { [1..n -> Words] : n \in 0..MaxWords }

\* The task lists handed to a task loop.
TaskLists == UNION { [1..n -> Solution1Tasks] : n \in 0..MaxTasks }

RECURSIVE Text(_)
\* The characters of a task description (the concatenation of its fragments).
Text(task) ==
  IF task = <<>> THEN <<>> ELSE Chars(Head(task)) \o Text(Tail(task))

UpperCase == Chars("ABCDEFGHIJKLMNOPQRSTUVWXYZ")
LowerCase == Chars("abcdefghijklmnopqrstuvwxyz")

\* str.lower() on one character.
LowerChar(c) ==
  IF \E k \in 1..Len(UpperCase) : UpperCase[k] = c
  THEN LowerCase[CHOOSE k \in 1..Len(UpperCase) : UpperCase[k] = c]
  ELSE c

\* str.lower()
lower(s) == [k \in 1..Len(s) |-> LowerChar(s[k])]

\* Python's `kw in s` for strings: kw occurs in s as a contiguous substring.
In(kw, s) ==
  \E i \in 0..(Len(s) - Len(kw)) : SubSeq(s, i + 1, i + Len(kw)) = kw

\* ------------------------------------------------------------- classifiers
\* route_task with the browser test written as in analyze_task ("web" for
\* "web scraping").
route_task_web(task_description) ==
  LET task_lower == lower(Text(task_description)) IN
  IF In(Chars("browser"), task_lower) \/ In(Chars("web"), task_lower)
  THEN "browser"
  ELSE IF In(Chars("file"), task_lower) \/ In(Chars("directory"), task_lower)
  THEN "filesystem"
  ELSE IF In(Chars("database"), task_lower) \/ In(Chars("sql"), task_lower)
  THEN "database"
  ELSE "general"

\* The branch of route_task's if/elif chain that a task description takes.
route_task(task_description) ==
  LET task_lower == lower(Text(task_description)) IN
  IF In(Chars("browser"), task_lower) \/ In(Chars("web scraping"), task_lower)
  THEN "browser"
  ELSE IF In(Chars("file"), task_lower) \/ In(Chars("directory"), task_lower)
  THEN "filesystem"
  ELSE IF In(Chars("database"), task_lower) \/ In(Chars("sql"), task_lower)
  THEN "database"
  ELSE "general"

\* analyze_task with the filesystem test placed before the browser test.
analyze_task_file_first(task_description) ==
  LET low == lower(Text(task_description)) IN
  IF In(Chars("file"), low) \/ In(Chars("directory"), low)
  THEN [category |-> "filesystem", complexity |-> "simple", tools |-> <<"filesystem">>]
  ELSE IF In(Chars("browser"), low) \/ In(Chars("web"), low)
  THEN [category |-> "browser", complexity |-> "complex", tools |-> <<"playwright">>]
  ELSE IF In(Chars("database"), low) \/ In(Chars("sql"), low)
  THEN [category |-> "database", complexity |-> "complex", tools |-> <<"database">>]
  ELSE [category |-> "general", complexity |-> "simple", tools |-> <<>>]

\* AgentOrchestrator.analyze_task
analyze_task(task_description) ==
  LET low == lower(Text(task_description)) IN
  IF In(Chars("browser"), low) \/ In(Chars("web"), low)
  THEN [category |-> "browser", complexity |-> "complex", tools |-> <<"playwright">>]
  ELSE IF In(Chars("file"), low) \/ In(Chars("directory"), low)
  THEN [category |-> "filesystem", complexity |-> "simple", tools |-> <<"filesystem">>]
  ELSE IF In(Chars("database"), low) \/ In(Chars("sql"), low)
  THEN [category |-> "database", complexity |-> "complex", tools |-> <<"database">>]
  ELSE [category |-> "general", complexity |-> "simple", tools |-> <<>>]

\* ------------------------------------------------------- session options
\* ClaudeAgentOptions: mcp_servers is a set of <<name, config>> pairs (the
\* dict's items); an unset system_prompt is NoPrompt; allowed_tools defaults
\* to the empty list.
NoPrompt == "None"

Options(servers, prompt, allowed) ==
  [mcp_servers |-> servers, system_prompt |-> prompt, allowed_tools |-> allowed]

\* The options route_task builds in each branch.
route_task_options(branch) ==
  CASE branch = "browser" ->
         Options({<<"playwright", "playwright_config">>},
                 "You are a browser automation specialist.", <<>>)
    [] branch = "filesystem" ->
         Options({<<"filesystem", "filesystem_config">>},
                 "You are a file operations specialist.", <<>>)
    [] branch = "database" ->
         Options({<<"database", "database_config">>},
                 "You are a database specialist.", <<>>)
    [] OTHER ->
         Options({}, NoPrompt, <<"Read", "Write", "Bash">>)

\* execute_task_options with the database session also given the filesystem
\* server.
execute_task_options_shared(category) ==
  CASE category = "browser" ->
         Options({<<"playwright", "browser_config">>},
                 "You are a browser automation expert.", <<>>)
    [] category = "filesystem" ->
         Options({<<"filesystem", "filesystem_config">>},
                 "You are a file operations expert.", <<>>)
    [] category = "database" ->
         Options({<<"filesystem", "filesystem_config">>,
                  <<"database", "database_config">>},
                 "You are a database expert.", <<>>)
    [] OTHER ->
         Options({}, "You are a helpful assistant.",
                 <<"Read", "Write", "Bash", "Grep", "Glob">>)

\* The options built by the _execute_*_task method that execute_task
\* dispatches to for a category.
execute_task_options(category) ==
  CASE category = "browser" ->
         Options({<<"playwright", "browser_config">>},
                 "You are a browser automation expert.", <<>>)
    [] category = "filesystem" ->
         Options({<<"filesystem", "filesystem_config">>},
                 "You are a file operations expert.", <<>>)
    [] category = "database" ->
         Options({<<"database", "database_config">>},
                 "You are a database expert.", <<>>)
    [] OTHER ->
         Options({}, "You are a helpful assistant.",
                 <<"Read", "Write", "Bash", "Grep", "Glob">>)

\* ------------------------------------------------------------------- state
\* An absent value (Python's None) and a present one.
None == <<>>
Some(v) == <<v>>

\* The contents a response message may have.
Messages == {"m1", "m2"}

VARIABLES
  solution,   \* which demo runs: "solution1" (route_task loop) or "solution4"
  tasks,      \* the task list the loop iterates over
  idx,        \* position of the loop in tasks (1-based)
  pc,         \* where the flow of control is suspended
  branch,     \* solution 1: the branch route_task took for the current task
  task_type,  \* solution 4: execute_task's task_type for the current task
  sessions,   \* every ClaudeSDKClient constructed so far, in order, each
              \* with the user turns sent and the messages emitted on it
  collected,  \* the list the comprehension over receive_response() is building
  result,     \* the value the current invocation returned, if it returned
  results,    \* execute_multiple_tasks' local list
  returned,   \* the value the task loop handed to its caller, if it returned
  error       \* the exception in flight or propagated to the caller

vars ==
  << solution, tasks, idx, pc, branch, task_type, sessions, collected,
     result, results, returned, error >>

\* A client constructed for task number i with the given options; it is
\* "connecting" until __aenter__ completes.
Session(i, options) ==
  [task |-> i, options |-> options, state |-> "connecting",
   sent |-> <<>>, emitted |-> <<>>]

\* The client of the current invocation (the last one constructed).
Cur == sessions[Len(sessions)]

\* The last client constructed with its state replaced.
SetState(ss, st) == [ss EXCEPT ![Len(ss)].state = st]

InitWith(ts) ==
  /\ solution \in {"solution1", "solution4"}
  /\ tasks \in ts
  /\ idx = 1
  /\ pc = "loop"
  /\ branch = "none"
  /\ task_type = None
  /\ sessions = <<>>
  /\ collected = <<>>
  /\ result = None
  /\ results = <<>>
  /\ returned = None
  /\ error = "none"

\* A task loop entered with a list of solution 1's demo tasks.
Init == InitWith(TaskLists)

\* One call of route_task / execute_task with an arbitrary task description.
ClassifyInit == InitWith({ <<t>> : t \in TaskStrings })

\* ----------------------------------------------------------------- actions
\* Solution 1, loop body up to the first suspension: route_task picks its
\* branch, builds the branch's options and constructs the client.
RouteTask ==
  /\ solution = "solution1"
  /\ pc = "loop"
  /\ idx <= Len(tasks)
  /\ branch' = route_task(tasks[idx])
  /\ sessions' = Append(sessions, Session(idx, route_task_options(branch')))
  /\ collected' = <<>>
  /\ result' = None
  /\ pc' = "connect"
  /\ UNCHANGED << solution, tasks, idx, task_type, results, returned, error >>

\* Solution 4, loop body up to the first suspension: execute_task analyzes
\* the task, dispatches on the category and the _execute_*_task method
\* builds its options and constructs the client.
ExecuteTask ==
  /\ solution = "solution4"
  /\ pc = "loop"
  /\ idx <= Len(tasks)
  /\ task_type' = Some(analyze_task(tasks[idx]))
  /\ sessions' =
       Append(sessions, Session(idx, execute_task_options(task_type'[1].category)))
  /\ collected' = <<>>
  /\ result' = None
  /\ pc' = "connect"
  /\ UNCHANGED << solution, tasks, idx, branch, results, returned, error >>

\* __aenter__ completes: the session is open and client.query is awaited.
ConnectOk ==
  /\ pc = "connect"
  /\ sessions' = SetState(sessions, "open")
  /\ pc' = "query"
  /\ UNCHANGED << solution, tasks, idx, branch, task_type, collected, result,
                  results, returned, error >>

\* __aenter__ raises (runtime unreachable, bad configuration) or is
\* cancelled: the with-body never runs, __aexit__ is not called, and the
\* exception leaves route_task / execute_task and the task loop, none of
\* which catches it.
ConnectFail ==
  /\ pc = "connect"
  /\ \E e \in {"ConnectionError", "CancelledError"} : error' = e
  /\ sessions' = SetState(sessions, "failed")
  /\ pc' = "raised"
  /\ UNCHANGED << solution, tasks, idx, branch, task_type, collected, result,
                  results, returned >>

\* await client.query(prompt) completes: the task text is one user turn.
QueryOk ==
  /\ pc = "query"
  /\ sessions' = [sessions EXCEPT ![Len(sessions)].sent = Append(@, tasks[idx])]
  /\ pc' = "receive"
  /\ UNCHANGED << solution, tasks, idx, branch, task_type, collected, result,
                  results, returned, error >>

\* await client.query(prompt) raises: the with-block is left by exception.
QueryFail ==
  /\ pc = "query"
  /\ error' = "ConnectionError"
  /\ pc' = "aexit_raise"
  /\ UNCHANGED << solution, tasks, idx, branch, task_type, sessions,
                  collected, result, results, returned >>

\* RecvMsg with a message already in the list skipped.
RecvMsg_dedup ==
  /\ pc = "receive"
  /\ Len(Cur.emitted) < MaxMsgs
  /\ \E m \in Messages :
       /\ sessions' = [sessions EXCEPT ![Len(sessions)].emitted = Append(@, m)]
       /\ collected' =
            IF \E k \in 1..Len(collected) : collected[k] = m
            THEN collected ELSE Append(collected, m)
  /\ UNCHANGED << solution, tasks, idx, pc, branch, task_type, result,
                  results, returned, error >>

\* The runtime emits a message and the comprehension appends it.
RecvMsg ==
  /\ pc = "receive"
  /\ Len(Cur.emitted) < MaxMsgs
  /\ \E m \in Messages :
       /\ sessions' = [sessions EXCEPT ![Len(sessions)].emitted = Append(@, m)]
       /\ collected' = Append(collected, m)
  /\ UNCHANGED << solution, tasks, idx, pc, branch, task_type, result,
                  results, returned, error >>

\* The stream ends: the comprehension's list is the return value, and the
\* return statement leaves the with-block.
RecvEnd ==
  /\ pc = "receive"
  /\ result' = Some(collected)
  /\ pc' = "aexit_return"
  /\ UNCHANGED << solution, tasks, idx, branch, task_type, sessions,
                  collected, results, returned, error >>

\* RecvFail with the failure caught and the messages collected so far
\* returned.
RecvFail_partial ==
  /\ pc = "receive"
  /\ error' = "StreamError"
  /\ result' = Some(collected)
  /\ pc' = "aexit_return"
  /\ UNCHANGED << solution, tasks, idx, branch, task_type, sessions,
                  collected, results, returned >>

\* The stream terminates abnormally: the comprehension raises, its partial
\* list is dropped with it, and the with-block is left by exception.
RecvFail ==
  /\ pc = "receive"
  /\ error' = "StreamError"
  /\ collected' = <<>>
  /\ pc' = "aexit_raise"
  /\ UNCHANGED << solution, tasks, idx, branch, task_type, sessions, result,
                  results, returned >>

\* The invocation is cancelled while suspended inside the with-block.
Cancel ==
  /\ pc \in {"query", "receive"}
  /\ error' = "CancelledError"
  /\ collected' = <<>>
  /\ pc' = "aexit_raise"
  /\ UNCHANGED << solution, tasks, idx, branch, task_type, sessions, result,
                  results, returned >>

\* AexitReturn with the session left open.
AexitReturn_no_close ==
  /\ pc = "aexit_return"
  /\ results' = IF solution = "solution4" THEN Append(results, result[1])
                ELSE results
  /\ idx' = idx + 1
  /\ pc' = "loop"
  /\ UNCHANGED << solution, tasks, branch, task_type, sessions, collected,
                  result, returned, error >>

\* __aexit__ after the return statement: the session is closed, the
\* invocation returns, and the loop goes on (execute_multiple_tasks appends
\* the result; solution 1's loop drops it).
AexitReturn ==
  /\ pc = "aexit_return"
  /\ sessions' = SetState(sessions, "closed")
  /\ results' = IF solution = "solution4" THEN Append(results, result[1])
                ELSE results
  /\ idx' = idx + 1
  /\ pc' = "loop"
  /\ UNCHANGED << solution, tasks, branch, task_type, collected, result,
                  returned, error >>

\* AexitRaise with the session left open.
AexitRaise_no_close ==
  /\ pc = "aexit_raise"
  /\ pc' = "raised"
  /\ UNCHANGED << solution, tasks, idx, branch, task_type, sessions,
                  collected, result, results, returned, error >>

\* AexitRaise with the exception caught by the loop, which goes on to the
\* next task.
AexitRaise_swallow ==
  /\ pc = "aexit_raise"
  /\ sessions' = SetState(sessions, "closed")
  /\ idx' = idx + 1
  /\ pc' = "loop"
  /\ UNCHANGED << solution, tasks, branch, task_type, collected, result,
                  results, returned, error >>

\* __aexit__ after an exception: the session is closed and the exception
\* leaves the invocation and the task loop, none of which catches it.
AexitRaise ==
  /\ pc = "aexit_raise"
  /\ sessions' = SetState(sessions, "closed")
  /\ pc' = "raised"
  /\ UNCHANGED << solution, tasks, idx, branch, task_type, collected, result,
                  results, returned, error >>

\* The loop is exhausted: execute_multiple_tasks returns results; solution
\* 1's function returns None.
LoopDone ==
  /\ pc = "loop"
  /\ idx > Len(tasks)
  /\ returned' = IF solution = "solution4" THEN Some(results) ELSE None
  /\ pc' = "returned"
  /\ UNCHANGED << solution, tasks, idx, branch, task_type, sessions,
                  collected, result, results, error >>

Next ==
  \/ RouteTask
  \/ ExecuteTask
  \/ ConnectOk
  \/ ConnectFail
  \/ QueryOk
  \/ QueryFail
  \/ RecvMsg
  \/ RecvEnd
  \/ RecvFail
  \/ Cancel
  \/ AexitReturn
  \/ AexitRaise
  \/ LoopDone

Spec == Init /\ [][Next]_vars

ClassifySpec == ClassifyInit /\ [][Next]_vars

\* ------------------------------------------------------------- properties
\* An invocation for tasks[idx] has begun and the loop has not moved on.
InInvocation ==
  pc \in {"connect", "query", "receive", "aexit_return", "aexit_raise", "raised"}

\* The names of the tool-servers a session is configured with.
ServerNames(options) == { p[1] : p \in options.mcp_servers }

\* Letter d is c or c's lower-case form.
SameLetter(c, d) ==
  c = d \/ \E k \in 1..Len(UpperCase) : UpperCase[k] = c /\ LowerCase[k] = d

\* The task's text contains keyword kw at some position, in any letter case.
Mentions(task, kw) ==
  LET s == Text(task)
      k == Chars(kw)
  IN  \E off \in 0..(Len(s) - Len(k)) :
        \A j \in 1..Len(k) : SameLetter(s[off + j], k[j])

\* The category the router in use selected for the current task.
Selected == IF solution = "solution1" THEN branch ELSE task_type[1].category

Scenario1 == <<"Scrape product data from example.com">>
Scenario3 == <<"Query users table for active accounts">>

\* C1: whenever an invocation runs for "Scrape product data from
\* example.com", the router in use (route_task or analyze_task) selected
\* Browser and the session is configured with only the playwright server.
C1_Scenario1RoutesToBrowser ==
  (InInvocation /\ tasks[idx] = Scenario1) =>
    /\ Selected = "browser"
    /\ ServerNames(Cur.options) = {"playwright"}

\* C2: whenever an invocation runs for "Query users table for active
\* accounts", the router in use selected Database and the session is
\* configured with only the database server.
C2_Scenario3RoutesToDatabase ==
  (InInvocation /\ tasks[idx] = Scenario3) =>
    /\ Selected = "database"
    /\ ServerNames(Cur.options) = {"database"}

\* The task mentions none of the six keywords the specification recognizes.
NoRecognizedKeyword(task) ==
  \A kw \in {"browser", "web scraping", "file", "directory", "database", "sql"} :
    ~Mentions(task, kw)

\* route_task took its default branch / analyze_task returned general with
\* an empty tools list.
ClassifiedGeneral ==
  /\ solution = "solution1" => branch = "general"
  /\ solution = "solution4" =>
       task_type[1].category = "general" /\ task_type[1].tools = <<>>

\* C3 as stated: a task mentioning none of "browser", "web scraping",
\* "file", "directory", "database", "sql" is classified General by both
\* routers.
C3_NoKeywordIsGeneral_AsStated ==
  (InInvocation /\ NoRecognizedKeyword(tasks[idx])) => ClassifiedGeneral

\* C3 amended: a task mentioning none of the six keywords is classified
\* General by route_task, and by analyze_task when it does not mention
\* "web" either (analyze_task's browser keyword is "web", not "web
\* scraping").
C3_NoKeywordIsGeneral ==
  ( /\ InInvocation
    /\ NoRecognizedKeyword(tasks[idx])
    /\ solution = "solution4" => ~Mentions(tasks[idx], "web") )
  => ClassifiedGeneral

\* analyze_task has classified as General a non-empty task that mentions no
\* keyword.
C3_Witness ==
  /\ InInvocation
  /\ solution = "solution4"
  /\ tasks[idx] # <<>>
  /\ Text(tasks[idx]) # <<>>
  /\ NoRecognizedKeyword(tasks[idx])
  /\ ~Mentions(tasks[idx], "web")
  /\ task_type[1].category = "general"

\* The priority chain with the given browser test: browser first, then
\* filesystem, then database.
PriorityOrder(task, isBrowser) ==
  LET isFile == Mentions(task, "file") \/ Mentions(task, "directory")
      isDb == Mentions(task, "database") \/ Mentions(task, "sql")
  IN  /\ isBrowser => Selected = "browser"
      /\ (~isBrowser /\ isFile) => Selected = "filesystem"
      /\ (~isBrowser /\ ~isFile /\ isDb) => Selected = "database"

\* C4 as stated: both routers classify by browser ("browser", "web
\* scraping") > filesystem ("file", "directory") > database ("database",
\* "sql"), matching case-insensitively at any position.
C4_PriorityOrder_AsStated ==
  InInvocation =>
    PriorityOrder(tasks[idx],
                  Mentions(tasks[idx], "browser")
                    \/ Mentions(tasks[idx], "web scraping"))

\* C4 amended: route_task classifies by that priority order; analyze_task
\* classifies by the same order with browser keywords "browser" and "web",
\* so a task mentioning "web" is Browser whatever else it mentions.
C4_PriorityOrder ==
  InInvocation =>
    PriorityOrder(tasks[idx],
                  \/ Mentions(tasks[idx], "browser")
                  \/ Mentions(tasks[idx], "web scraping")
                  \/ solution = "solution4" /\ Mentions(tasks[idx], "web"))

\* analyze_task has classified as Browser a task that mentions "web" but not
\* "web scraping", together with a filesystem keyword.
C4_Witness ==
  /\ InInvocation
  /\ solution = "solution4"
  /\ Mentions(tasks[idx], "web")
  /\ ~Mentions(tasks[idx], "web scraping")
  /\ ~Mentions(tasks[idx], "browser")
  /\ Mentions(tasks[idx], "file")
  /\ task_type[1].category = "browser"

\* The tool-servers that belong to each profile.
ProfileServers(category) ==
  CASE category = "browser" -> {"playwright"}
    [] category = "filesystem" -> {"filesystem"}
    [] category = "database" -> {"database"}
    [] category = "general" -> {}

\* Elements of a list.
Range(s) == { s[k] : k \in 1..Len(s) }

\* C5: the session of every invocation is configured with exactly the
\* tool-servers of the profile the router selected for its task (for
\* solution 4 these are also the tools analyze_task reported), and a General
\* session carries the fixed allow-list of local tools of its solution.
C5_Isolation ==
  InInvocation =>
    /\ ServerNames(Cur.options) = ProfileServers(Selected)
    /\ solution = "solution4" =>
         ServerNames(Cur.options) = Range(task_type[1].tools)
    /\ Selected = "general" =>
         Cur.options.allowed_tools =
           IF solution = "solution1" THEN <<"Read", "Write", "Bash">>
           ELSE <<"Read", "Write", "Bash", "Grep", "Glob">>

\* A Database session of execute_task is open.
C5_Witness ==
  /\ InInvocation
  /\ solution = "solution4"
  /\ task_type[1].category = "database"
  /\ Cur.state = "open"

\* The number of invocations begun so far.
Begun == IF InInvocation THEN idx ELSE idx - 1

\* C6: every invocation constructs exactly one session (the k-th session
\* belongs to the k-th invocation), and once an invocation has returned or
\* raised its session is not open: it was closed by __aexit__, or never
\* opened because connecting failed.
C6_SessionReleased ==
  /\ Len(sessions) = Begun
  /\ \A k \in 1..Len(sessions) :
       /\ sessions[k].task = k
       /\ (k < Len(sessions) \/ pc \in {"loop", "returned", "raised"}) =>
            sessions[k].state \in {"closed", "failed"}
       /\ sessions[k].state = "failed" =>
            (sessions[k].sent = <<>> /\ sessions[k].emitted = <<>>)

\* An invocation has raised out of the response stream after receiving a
\* message, and its session is closed.
C6_Witness ==
  /\ pc = "raised"
  /\ error = "StreamError"
  /\ Cur.emitted # <<>>
  /\ Cur.state = "closed"

\* C7: once an invocation fails (connect, send, stream or cancellation) it
\* returns nothing - the messages collected so far are dropped, no result
\* reaches the caller - the failure propagates, and there is no retry: the
\* failed task has one session and at most one user turn, and no session
\* follows it.
C7_FailureDiscardsAndPropagates ==
  error # "none" =>
    /\ pc \in {"aexit_raise", "raised"}
    /\ result = None
    /\ collected = <<>>
    /\ returned = None
    /\ Len(sessions) = idx
    /\ Cardinality({ k \in 1..Len(sessions) : sessions[k].task = idx }) = 1
    /\ Len(Cur.sent) <= 1

\* A stream failure after two messages has propagated to the caller with no
\* result.
C7_Witness ==
  /\ pc = "raised"
  /\ error = "StreamError"
  /\ Len(Cur.emitted) >= 2
  /\ result = None
  /\ returned = None

\* C8: execute_multiple_tasks aborts on the first failure - no session is
\* constructed for a later task, nothing is returned - and when no
\* invocation fails it returns one result per task, the i-th being the
\* messages emitted on the session of the i-th task.
C8_BatchAbortsOnFirstFailure ==
  solution = "solution4" =>
    /\ error # "none" =>
         /\ pc \in {"aexit_raise", "raised"}
         /\ Len(sessions) = idx
         /\ returned = None
    /\ pc = "returned" =>
         /\ error = "none"
         /\ returned = Some(results)
         /\ Len(results) = Len(tasks)
         /\ \A i \in 1..Len(tasks) :
              /\ sessions[i].sent = <<tasks[i]>>
              /\ results[i] = sessions[i].emitted
    /\ returned # None => pc = "returned"

\* The first of two tasks failed: the batch has raised with the second task
\* never started.
C8_Witness ==
  /\ solution = "solution4"
  /\ pc = "raised"
  /\ idx < Len(tasks)
  /\ Len(sessions) = idx
  /\ returned = None

\* C9: at most one session is connecting or open at any time, every session
\* but the last is finished, and sessions are constructed in task order.
C9_Sequential ==
  /\ Cardinality({ k \in 1..Len(sessions) :
                     sessions[k].state \in {"connecting", "open"} }) <= 1
  /\ \A k \in 1..Len(sessions) :
       /\ sessions[k].task = k
       /\ k < Len(sessions) => sessions[k].state \in {"closed", "failed"}

\* The second session is open and the first one is closed.
C9_Witness ==
  /\ Len(sessions) = 2
  /\ sessions[1].state = "closed"
  /\ sessions[2].state = "open"

\* State part of C10: a session carries at most one user turn, the task
\* text, sent before any message was emitted; the list under construction is
\* the messages emitted so far; the returned result is the emitted sequence.
C10_State ==
  InInvocation =>
    /\ Len(Cur.sent) <= 1
    /\ (pc \in {"receive", "aexit_return"} \/ Cur.emitted # <<>>) =>
         Cur.sent = <<tasks[idx]>>
    /\ pc = "receive" => collected = Cur.emitted
    /\ pc = "aexit_return" => result = Some(Cur.emitted)
    /\ result # None => pc = "aexit_return"

\* Step part of C10: while receiving, the list changes only by one message
\* appended at its end.
C10_Step ==
  (pc = "receive" /\ pc' = "receive") =>
    \E m \in Messages : collected' = Append(collected, m)

\* C10: the task text is sent exactly once, before any message; the result
\* grows only by appending and on success is exactly the emitted sequence in
\* arrival order.
C10_SentOnceResultInOrder == []C10_State /\ [][C10_Step]_vars

\* An invocation is returning two different messages in arrival order.
C10_Witness ==
  /\ pc = "aexit_return"
  /\ Len(result[1]) = 2
  /\ result[1][1] # result[1][2]
  /\ result[1] = Cur.emitted

====
